---- MODULE Spec2Model ----
(***************************************************************************)
(* The text-refinement pipelines of the voice assistant:                   *)
(*   - AutoGenProcessor.process_text              (src/src/models.py)      *)
(*   - AutoGenVoiceProcessor._optimize_with_agents, process_audio and      *)
(*     optimize_text              (src/agents/autogen_voice_processor.py)  *)
(*   - AutoGenVoiceBot's audio handler                     (src/main.py)   *)
(* A text is a sequence of characters.  An ASCII character is written as   *)
(* itself, any other character as "u" followed by its code point in hex    *)
(* ("u3002" is the ideographic full stop), and the line feed, the double   *)
(* quote, the apostrophe and the backtick as "LF", "QUOT", "APOS" and      *)
(* "GRAVE".                                                                *)
(***************************************************************************)
EXTENDS Naturals, Sequences, FiniteSets, TLC

----------------------------------------------------------------------------
(* Python's str operations, on sequences of characters.                    *)

\* str.isspace() of one character
IsSpace(c) == c \in {" ", "LF", "TAB", "CR", "u3000"}

RECURSIVE LStripSet(_, _)
LStripSet(s, cs) ==
  IF s # <<>> /\ Head(s) \in cs THEN LStripSet(Tail(s), cs) ELSE s

RECURSIVE RStripSet(_, _)
RStripSet(s, cs) ==
  IF s # <<>> /\ s[Len(s)] \in cs THEN RStripSet(SubSeq(s, 1, Len(s) - 1), cs) ELSE s

\* s.strip(chars)
StripSet(s, cs) == RStripSet(LStripSet(s, cs), cs)

Whitespace == {" ", "LF", "TAB", "CR", "u3000"}

\* s.strip()
Strip(s) == StripSet(s, Whitespace)

\* s[i:i+len(p)] == p
MatchAt(s, p, i) ==
  /\ i + Len(p) - 1 <= Len(s)
  /\ SubSeq(s, i, i + Len(p) - 1) = p

\* p in s
Contains(s, p) == \E i \in 1..(Len(s) + 1) : MatchAt(s, p, i)

\* s.startswith(p), s.endswith(p)
StartsWith(s, p) == MatchAt(s, p, 1)
EndsWith(s, p) == Len(p) <= Len(s) /\ MatchAt(s, p, Len(s) - Len(p) + 1)

\* s.replace(old, new) for a non-empty old: the occurrences are found from the
\* left and do not overlap; the replaced text is not scanned again.
RECURSIVE ReplaceFrom(_, _, _, _)
ReplaceFrom(s, old, new, i) ==
  IF i > Len(s) THEN <<>>
  ELSE IF MatchAt(s, old, i) THEN new \o ReplaceFrom(s, old, new, i + Len(old))
  ELSE <<s[i]>> \o ReplaceFrom(s, old, new, i + 1)

Replace(s, old, new) == IF Contains(s, old) THEN ReplaceFrom(s, old, new, 1) ELSE s

\* re.sub(r'\s+', ' ', s): every maximal run of whitespace becomes one space
RECURSIVE CollapseFrom(_, _)
CollapseFrom(s, i) ==
  IF i > Len(s) THEN <<>>
  ELSE IF IsSpace(s[i])
       THEN IF i > 1 /\ IsSpace(s[i - 1]) THEN CollapseFrom(s, i + 1)
            ELSE <<" ">> \o CollapseFrom(s, i + 1)
       ELSE <<s[i]>> \o CollapseFrom(s, i + 1)

CollapseWhitespace(s) == CollapseFrom(s, 1)

\* for old, new in table.items(): text = text.replace(old, new), over the
\* entries lo..hi of the table, in order
RECURSIVE ReplaceRange(_, _, _, _)
ReplaceRange(s, table, lo, hi) ==
  IF lo > hi THEN s
  ELSE IF lo = hi THEN Replace(s, table[lo][1], table[lo][2])
  ELSE LET mid  == (lo + hi) \div 2
           left == ReplaceRange(s, table, lo, mid)
       IN  IF left = s THEN ReplaceRange(s, table, mid + 1, hi)
           ELSE ReplaceRange(left, table, mid + 1, hi)

ReplaceAll(s, table) == ReplaceRange(s, table, 1, Len(table))

----------------------------------------------------------------------------
(* Literals of the source.                                                 *)

TRADITIONAL_CHINESE_COMPLETE ==
  << "T", "R", "A", "D", "I", "T", "I", "O", "N", "A", "L", "_", "C", "H", "I", "N", "E",
     "S", "E", "_", "C", "O", "M", "P", "L", "E", "T", "E" >>
OPTIMIZATION_COMPLETE ==
  << "O", "P", "T", "I", "M", "I", "Z", "A", "T", "I", "O", "N", "_", "C", "O", "M", "P",
     "L", "E", "T", "E" >>
SPEECH_PROCESSED ==
  << "S", "P", "E", "E", "C", "H", "_", "P", "R", "O", "C", "E", "S", "S", "E", "D" >>
TASK_COMPLETE == <<"T", "A", "S", "K", "_", "C", "O", "M", "P", "L", "E", "T", "E">>

\* the two literals of the result f-string, before {text} and before the optimized part
OriginalPrefix == <<"u539f", "u59cb", "u6587", "u5b57", "uff1a">>
OptimizedPrefix == <<"LF", "u512a", "u5316", "u5f8c", "u7684", "u6587", "u5b57", "uff1a">>

\* the literal of initial_message, of the team task, and of the echo test of method 4
InitialMessagePrefix ==
  << "u8acb", "u8655", "u7406", "u4ee5", "u4e0b", "u8a9e", "u97f3", "u8f49", "u6587",
     "u5b57", "u7d50", "u679c", "uff1a", "LF", "LF" >>
TaskPrefix == <<"u8acb", "u8655", "u7406", "u4ee5", "u4e0b", "u6587", "u5b57", "uff1a">>
EchoPrefix == <<"u8acb", "u8655", "u7406", "u4ee5", "u4e0b">>

\* what transcribe_audio returns instead of a transcript
TranscribeFailedPrefix == <<"u8a9e", "u97f3", "u8f49", "u9304", "u5931", "u6557", ":", " ">>
NoSpeechRecognized == <<"u7121", "u6cd5", "u8fa8", "u8b58", "u8a9e", "u97f3", "u5167", "u5bb9">>

\* the ideographic full stop the punctuation fixes append
FullStop == <<"u3002">>

\* the dict of _basic_traditional_conversion, in insertion order
conversions ==
  << <<<<"u8f6f", "u4ef6">>, <<"u8edf", "u9ad4">>>>, <<<<"u7f51", "u7edc">>, <<"u7db2", "u8def">>>>,
     <<<<"u4fe1", "u606f">>, <<"u8cc7", "u8a0a">>>>, <<<<"u7a0b", "u5e8f">>, <<"u7a0b", "u5f0f">>>>,
     <<<<"u8ba1", "u7b97", "u673a">>, <<"u96fb", "u8166">>>>, <<<<"u8bbe", "u7f6e">>, <<"u8a2d", "u5b9a">>>>,
     <<<<"u6587", "u4ef6">>, <<"u6a94", "u6848">>>>, <<<<"u7528", "u6237">>, <<"u4f7f", "u7528", "u8005">>>>,
     <<<<"u5e94", "u7528">>, <<"u61c9", "u7528">>>>, <<<<"u7cfb", "u7edf">>, <<"u7cfb", "u7d71">>>>,
     <<<<"u6570", "u636e">>, <<"u8cc7", "u6599">>>>, <<<<"u5904", "u7406">>, <<"u8655", "u7406">>>>,
     <<<<"u8fde", "u63a5">>, <<"u9023", "u7dda">>>>, <<<<"u4e0b", "u8f7d">>, <<"u4e0b", "u8f09">>>>,
     <<<<"u4e0a", "u4f20">>, <<"u4e0a", "u50b3">>>>, <<<<"u5b58", "u50a8">>, <<"u5132", "u5b58">>>>,
     <<<<"u89c6", "u9891">>, <<"u5f71", "u7247">>>>, <<<<"u97f3", "u9891">>, <<"u97f3", "u8a0a">>>>,
     <<<<"u56fe", "u7247">>, <<"u5716", "u7247">>>>, <<<<"u7167", "u7247">>, <<"u76f8", "u7247">>>>,
     <<<<"u6253", "u5f00">>, <<"u958b", "u555f">>>>, <<<<"u5173", "u95ed">>, <<"u95dc", "u9589">>>>,
     <<<<"u4fdd", "u5b58">>, <<"u5132", "u5b58">>>>, <<<<"u5220", "u9664">>, <<"u522a", "u9664">>>> >>

\* the dict of _basic_s2t_convert, in insertion order (a repeated key keeps its first place)
s2t_dict ==
  << <<<<"u4f60">>, <<"u4f60">>>>, <<<<"u4eec">>, <<"u5011">>>>, <<<<"u8fd9">>, <<"u9019">>>>, <<<<"u90a3">>, <<"u90a3">>>>,
     <<<<"u4e2a">>, <<"u500b">>>>, <<<<"u8bf4">>, <<"u8aaa">>>>, <<<<"u8bdd">>, <<"u8a71">>>>, <<<<"u65f6">>, <<"u6642">>>>,
     <<<<"u95f4">>, <<"u9593">>>>, <<<<"u95ee">>, <<"u554f">>>>, <<<<"u9898">>, <<"u984c">>>>, <<<<"u73b0">>, <<"u73fe">>>>,
     <<<<"u5728">>, <<"u5728">>>>, <<<<"u5f00">>, <<"u958b">>>>, <<<<"u59cb">>, <<"u59cb">>>>, <<<<"u7ed3">>, <<"u7d50">>>>,
     <<<<"u675f">>, <<"u675f">>>>, <<<<"u5173">>, <<"u95dc">>>>, <<<<"u4e8e">>, <<"u65bc">>>>, <<<<"u5bf9">>, <<"u5c0d">>>>,
     <<<<"u5e94">>, <<"u61c9">>>>, <<<<"u8be5">>, <<"u8a72">>>>, <<<<"u5904">>, <<"u8655">>>>, <<<<"u7406">>, <<"u7406">>>>,
     <<<<"u8fdb">>, <<"u9032">>>>, <<<<"u884c">>, <<"u884c">>>>, <<<<"u53d1">>, <<"u767c">>>>, <<<<"u751f">>, <<"u751f">>>>,
     <<<<"u53d8">>, <<"u8b8a">>>>, <<<<"u5316">>, <<"u5316">>>>, <<<<"u4f1a">>, <<"u6703">>>>, <<<<"u8bae">>, <<"u8b70">>>>,
     <<<<"u8ba8">>, <<"u8a0e">>>>, <<<<"u8bba">>, <<"u8ad6">>>>, <<<<"u8ba1">>, <<"u8a08">>>>, <<<<"u5212">>, <<"u5283">>>>,
     <<<<"u8bbe">>, <<"u8a2d">>>>, <<<<"u5907">>, <<"u5099">>>>, <<<<"u51c6">>, <<"u6e96">>>>, <<<<"u786e">>, <<"u78ba">>>>,
     <<<<"u8ba4">>, <<"u8a8d">>>>, <<<<"u8bc6">>, <<"u8b58">>>>, <<<<"u5b9e">>, <<"u5be6">>>>, <<<<"u9645">>, <<"u969b">>>>,
     <<<<"u5185">>, <<"u5167">>>>, <<<<"u5bb9">>, <<"u5bb9">>>>, <<<<"u4fe1">>, <<"u4fe1">>>>, <<<<"u606f">>, <<"u606f">>>>,
     <<<<"u6570">>, <<"u6578">>>>, <<<<"u636e">>, <<"u64da">>>>, <<<<"u8d44">>, <<"u8cc7">>>>, <<<<"u6599">>, <<"u6599">>>>,
     <<<<"u7ecf">>, <<"u7d93">>>>, <<<<"u9a8c">>, <<"u9a57">>>>, <<<<"u5b66">>, <<"u5b78">>>>, <<<<"u4e60">>, <<"u7fd2">>>>,
     <<<<"u6559">>, <<"u6559">>>>, <<<<"u80b2">>, <<"u80b2">>>>, <<<<"u8bad">>, <<"u8a13">>>>, <<<<"u7ec3">>, <<"u7df4">>>>,
     <<<<"u5de5">>, <<"u5de5">>>>, <<<<"u4f5c">>, <<"u4f5c">>>>, <<<<"u4e1a">>, <<"u696d">>>>, <<<<"u52a1">>, <<"u52d9">>>>,
     <<<<"u670d">>, <<"u670d">>>>, <<<<"u73af">>, <<"u74b0">>>>, <<<<"u5883">>, <<"u5883">>>>, <<<<"u6761">>, <<"u689d">>>>,
     <<<<"u4ef6">>, <<"u4ef6">>>>, <<<<"u7cfb">>, <<"u7cfb">>>>, <<<<"u7edf">>, <<"u7d71">>>>, <<<<"u7f51">>, <<"u7db2">>>>,
     <<<<"u7edc">>, <<"u7d61">>>>, <<<<"u8fde">>, <<"u9023">>>>, <<<<"u63a5">>, <<"u63a5">>>>, <<<<"u901a">>, <<"u901a">>>>,
     <<<<"u8fc7">>, <<"u904e">>>>, <<<<"u68c0">>, <<"u6aa2">>>>, <<<<"u67e5">>, <<"u67e5">>>>, <<<<"u6d4b">>, <<"u6e2c">>>>,
     <<<<"u8bd5">>, <<"u8a66">>>>, <<<<"u8bc1">>, <<"u8b49">>>>, <<<<"u660e">>, <<"u660e">>>>, <<<<"u663e">>, <<"u986f">>>>,
     <<<<"u793a">>, <<"u793a">>>>, <<<<"u8868">>, <<"u8868">>>>, <<<<"u8fbe">>, <<"u9054">>>>, <<<<"u4f20">>, <<"u50b3">>>>,
     <<<<"u9012">>, <<"u905e">>>>, <<<<"u8f93">>, <<"u8f38">>>>, <<<<"u5165">>, <<"u5165">>>>, <<<<"u51fa">>, <<"u51fa">>>>,
     <<<<"u5bfc">>, <<"u5c0e">>>>, <<<<"u8f7d">>, <<"u8f09">>>>, <<<<"u4fdd">>, <<"u4fdd">>>>, <<<<"u5b58">>, <<"u5b58">>>>,
     <<<<"u50a8">>, <<"u5132">>>>, <<<<"u4efd">>, <<"u4efd">>>>, <<<<"u590d">>, <<"u8907">>>>, <<<<"u5236">>, <<"u88fd">>>>,
     <<<<"u521b">>, <<"u5275">>>>, <<<<"u5efa">>, <<"u5efa">>>>, <<<<"u7f16">>, <<"u7de8">>>>, <<<<"u8f91">>, <<"u8f2f">>>>,
     <<<<"u4fee">>, <<"u4fee">>>>, <<<<"u6539">>, <<"u6539">>>>, <<<<"u5220">>, <<"u522a">>>>, <<<<"u9664">>, <<"u9664">>>>,
     <<<<"u6dfb">>, <<"u6dfb">>>>, <<<<"u52a0">>, <<"u52a0">>>>, <<<<"u63d2">>, <<"u63d2">>>>, <<<<"u66f4">>, <<"u66f4">>>>,
     <<<<"u65b0">>, <<"u65b0">>>>, <<<<"u5347">>, <<"u5347">>>>, <<<<"u7ea7">>, <<"u7d1a">>>>, <<<<"u4f18">>, <<"u512a">>>>,
     <<<<"u7b80">>, <<"u7c21">>>>, <<<<"u5355">>, <<"u55ae">>>>, <<<<"u6742">>, <<"u96dc">>>>, <<<<"u96be">>, <<"u96e3">>>>,
     <<<<"u6613">>, <<"u6613">>>>, <<<<"u5feb">>, <<"u5feb">>>>, <<<<"u6162">>, <<"u6162">>>>, <<<<"u9ad8">>, <<"u9ad8">>>>,
     <<<<"u4f4e">>, <<"u4f4e">>>>, <<<<"u5927">>, <<"u5927">>>>, <<<<"u5c0f">>, <<"u5c0f">>>>, <<<<"u957f">>, <<"u9577">>>>,
     <<<<"u77ed">>, <<"u77ed">>>>, <<<<"u5bbd">>, <<"u5bec">>>>, <<<<"u7a84">>, <<"u7a84">>>>, <<<<"u6df1">>, <<"u6df1">>>>,
     <<<<"u6d45">>, <<"u6dfa">>>>, <<<<"u539a">>, <<"u539a">>>>, <<<<"u8584">>, <<"u8584">>>>, <<<<"u91cd">>, <<"u91cd">>>>,
     <<<<"u8f7b">>, <<"u8f15">>>>, <<<<"u5f3a">>, <<"u5f37">>>>, <<<<"u5f31">>, <<"u5f31">>>>, <<<<"u591a">>, <<"u591a">>>>,
     <<<<"u5c11">>, <<"u5c11">>>>, <<<<"u597d">>, <<"u597d">>>>, <<<<"u574f">>, <<"u58de">>>>, <<<<"u65e7">>, <<"u820a">>>>,
     <<<<"u65e9">>, <<"u65e9">>>>, <<<<"u665a">>, <<"u665a">>>>, <<<<"u524d">>, <<"u524d">>>>, <<<<"u540e">>, <<"u5f8c">>>>,
     <<<<"u5de6">>, <<"u5de6">>>>, <<<<"u53f3">>, <<"u53f3">>>>, <<<<"u4e0a">>, <<"u4e0a">>>>, <<<<"u4e0b">>, <<"u4e0b">>>>,
     <<<<"u4e2d">>, <<"u4e2d">>>>, <<<<"u4e1c">>, <<"u6771">>>>, <<<<"u897f">>, <<"u897f">>>>, <<<<"u5357">>, <<"u5357">>>>,
     <<<<"u5317">>, <<"u5317">>>>, <<<<"u5916">>, <<"u5916">>>>, <<<<"u91cc">>, <<"u88e1">>>>, <<<<"u8fb9">>, <<"u908a">>>>,
     <<<<"u4fa7">>, <<"u5074">>>>, <<<<"u9762">>, <<"u9762">>>>, <<<<"u65b9">>, <<"u65b9">>>>, <<<<"u5411">>, <<"u5411">>>>,
     <<<<"u5730">>, <<"u5730">>>>, <<<<"u70b9">>, <<"u9ede">>>>, <<<<"u4f4d">>, <<"u4f4d">>>>, <<<<"u7f6e">>, <<"u7f6e">>>>,
     <<<<"u533a">>, <<"u5340">>>>, <<<<"u57df">>, <<"u57df">>>> >>

----------------------------------------------------------------------------
(* The state.                                                              *)

VARIABLES
  app,                      \* the program: "main" (main.py), "voice" (the voice processor)
                            \* or "linebot" (line_bot_app.py)
  ENABLE_TEXT_OPTIMIZATION, \* os.getenv('ENABLE_TEXT_OPTIMIZATION', 'true').lower() == 'true'
  opencc,                   \* the opencc package: "installed", "missing" or "broken"
  AUTOGEN_AVAILABLE,        \* models.AUTOGEN_AVAILABLE
  team,                     \* AutoGenProcessor.team is not None
  client,                   \* the processor's client is not None
  optimizer_agent,          \* the processor's optimizer agent is not None
  traditional_agent,        \* the processor's converter agent is not None
  pc,                       \* "idle", "stage1", "stage2", "team", "vteam" or "done"
  entry,                    \* the entry point of the run
  text,                     \* the text the pipeline was given
  loop_running,             \* an event loop is running in the calling thread
  nested_loop,              \* run_until_complete was called while a loop was running
  pipeline_invoked,         \* process_text or _optimize_with_agents was called
  calls,                    \* the remote agent and team calls of the run, in order
  outcomes,                 \* how each finished call ended
  inflight,                 \* the remote call being awaited
  optimized_text,           \* _simple_agent_processing's optimized_text
  messages,                 \* the messages of the running team (the task first)
  result,                   \* what the entry point returned
  final_text,               \* the refined text (the optimized part of the result)
  download,                 \* the audio download of the event
  stt,                      \* the transcription of the event
  pushes,                   \* the messages pushed to the user
  cleaned,                  \* the deletion of the event's audio file was attempted
  enable_word_time_offsets, \* GoogleSTTProcessor.enable_word_time_offsets
  original_setting,         \* original_setting of each thread's call
  stt_pc,                   \* where each thread is in transcribe_audio_with_timestamps
  TINYDB_AVAILABLE,         \* storage.py imported tinydb
  db,                       \* the tables of the TinyDB database
  json_file,                \* the content of the JSON file
  data,                     \* data of each thread's save_interaction
  store_pc                  \* where each thread is in save_interaction, for which
                            \* user, and how many calls it has made

config == <<app, ENABLE_TEXT_OPTIMIZATION, opencc, AUTOGEN_AVAILABLE, team, client,
           optimizer_agent, traditional_agent>>
vars == <<app, ENABLE_TEXT_OPTIMIZATION, opencc, AUTOGEN_AVAILABLE, team, client,
          optimizer_agent, traditional_agent, pc, entry, text,
          loop_running, nested_loop, pipeline_invoked, calls, outcomes, inflight,
          optimized_text, messages, result, final_text, download, stt, pushes, cleaned,
          enable_word_time_offsets, original_setting, stt_pc, TINYDB_AVAILABLE, db,
          json_file, data, store_pc>>

\* the GoogleSTTProcessor's and the UserStorage's state
stt_processor == <<enable_word_time_offsets, original_setting, stt_pc>>
user_storage == <<TINYDB_AVAILABLE, db, json_file, data, store_pc>>
services == <<stt_processor, user_storage>>

----------------------------------------------------------------------------
(* AutoGenProcessor's deterministic fallback (src/src/models.py).          *)

_basic_traditional_conversion(txt) == ReplaceAll(txt, conversions)

\* the tuple given to txt.endswith in _basic_punctuation_fix
SentenceEndings == << <<"u3002">>, <<"uff01">>, <<"uff1f">>, <<".", ".", ".">>, <<"u2026">> >>

\* A faulty variant of _basic_punctuation_fix, kept for comparison: the full
\* stop is appended without looking at the end of the text.
PunctuationFixAlwaysAppends(txt) ==
  LET t == Strip(txt) IN IF t # <<>> THEN t \o FullStop ELSE t

_basic_punctuation_fix(txt) ==
  LET t == Strip(txt) IN
  IF t # <<>> /\ ~(\E i \in 1..Len(SentenceEndings) : EndsWith(t, SentenceEndings[i]))
  THEN t \o FullStop
  ELSE t

\* The except branch (return text) is not reachable for a str argument.
_fallback_processing(txt) ==
  _basic_punctuation_fix(_basic_traditional_conversion(txt))

----------------------------------------------------------------------------
(* AutoGenVoiceProcessor's conversion and cleaning                         *)
(* (src/agents/autogen_voice_processor.py).                                *)

_basic_s2t_convert(txt) == ReplaceAll(txt, s2t_dict)

\* opencc.OpenCC('s2t').convert on the characters the texts below use: the
\* library maps each simplified character to its traditional form.
opencc_s2t ==
  << <<<<"u8fd9">>, <<"u9019">>>>, <<<<"u4e2a">>, <<"u500b">>>>, <<<<"u8f6f">>, <<"u8edf">>>>,
     <<<<"u7f51">>, <<"u7db2">>>>, <<<<"u7edc">>, <<"u7d61">>>>, <<<<"u8bbe">>, <<"u8a2d">>>>,
     <<<<"u95ee">>, <<"u554f">>>>, <<<<"u9898">>, <<"u984c">>>> >>

\* opencc is "installed", "missing" (ImportError: _basic_s2t_convert is used) or
\* "broken" (it raises: the text is returned as it is).
_convert_to_traditional_chinese(txt) ==
  IF txt = <<>> THEN txt
  ELSE IF opencc = "installed" THEN ReplaceAll(txt, opencc_s2t)
  ELSE IF opencc = "missing" THEN _basic_s2t_convert(txt)
  ELSE txt

\* the characters of '"\'`' and of '。！？.!?'
QuoteChars == {"QUOT", "APOS", "GRAVE"}
TerminalMarks == {"u3002", "uff01", "uff1f", ".", "!", "?"}

_clean_optimized_text(txt) ==
  IF txt = <<>> THEN txt
  ELSE LET t1 == Replace(Replace(txt, TASK_COMPLETE, <<>>), SPEECH_PROCESSED, <<>>)
           t2 == StripSet(t1, QuoteChars)
           t3 == Strip(CollapseWhitespace(t2))
           t4 == _convert_to_traditional_chinese(t3)
       IN  IF t4 # <<>> /\ t4[Len(t4)] \notin TerminalMarks THEN t4 \o FullStop ELSE t4

\* f"原始文字：{text}\n優化後的文字：{optimized}"
ResultText(txt, optimized) == OriginalPrefix \o txt \o OptimizedPrefix \o optimized

\* initial_message and the task of the team collaboration
InitialMessage(txt) == InitialMessagePrefix \o txt
TeamTask(txt) == TaskPrefix \o txt

----------------------------------------------------------------------------
(* Extraction of the final text from the team's messages                   *)
(* (_optimize_with_agents, methods 1 to 4).  A message is a record         *)
(* [source, content]; the empty text stands for None and for "", which the *)
(* code does not tell apart (if optimized_text).                           *)

\* What one message of the source a method looks for sets optimized_text to.
\* Method 1 does not compare with initial_message; methods 2 and 3 do.
Candidate(content, marker, checkEcho, initial) ==
  LET c == Strip(content) IN
  IF Contains(c, marker) THEN Strip(Replace(c, marker, <<>>))
  ELSE IF Len(c) > 5 /\ (~checkEcho \/ c # initial) THEN c
  ELSE <<>>

\* A faulty variant of MethodScan, kept for comparison: the messages are
\* scanned from the oldest on, so that the first turn that qualifies wins.
RECURSIVE MethodScanOldestFirst(_, _, _, _, _, _)
MethodScanOldestFirst(msgs, i, source, marker, checkEcho, initial) ==
  IF i = 0 THEN <<>>
  ELSE LET earlier == MethodScanOldestFirst(msgs, i - 1, source, marker, checkEcho, initial)
           c       == Candidate(msgs[i].content, marker, checkEcho, initial)
       IN  IF earlier # <<>> THEN earlier
           ELSE IF msgs[i].source = source THEN c
           ELSE <<>>

\* for message in reversed(result.messages): ... if optimized_text: break
RECURSIVE MethodScan(_, _, _, _, _, _)
MethodScan(msgs, i, source, marker, checkEcho, initial) ==
  IF i = 0 THEN <<>>
  ELSE LET c == Candidate(msgs[i].content, marker, checkEcho, initial) IN
       IF msgs[i].source = source /\ c # <<>> THEN c
       ELSE MethodScan(msgs, i - 1, source, marker, checkEcho, initial)

\* method 4: any message, the three markers removed
StripMarkers(c) ==
  Strip(Replace(Replace(Replace(c, TRADITIONAL_CHINESE_COMPLETE, <<>>),
                        OPTIMIZATION_COMPLETE, <<>>), SPEECH_PROCESSED, <<>>))

RECURSIVE Method4Scan(_, _, _)
Method4Scan(msgs, i, initial) ==
  IF i = 0 THEN <<>>
  ELSE LET c == Strip(msgs[i].content) IN
       IF /\ c # <<>>
          /\ Len(c) > 5
          /\ c # initial
          /\ ~StartsWith(c, EchoPrefix)
          /\ StripMarkers(c) # <<>>
       THEN StripMarkers(c)
       ELSE Method4Scan(msgs, i - 1, initial)

ExtractOptimized(msgs, initial) ==
  LET n  == Len(msgs)
      m1 == MethodScan(msgs, n, "traditional_chinese_converter",
                       TRADITIONAL_CHINESE_COMPLETE, FALSE, initial)
      m2 == MethodScan(msgs, n, "content_optimizer", OPTIMIZATION_COMPLETE, TRUE, initial)
      m3 == MethodScan(msgs, n, "speech_processor", SPEECH_PROCESSED, TRUE, initial)
  IN  IF m1 # <<>> THEN m1
      ELSE IF m2 # <<>> THEN m2
      ELSE IF m3 # <<>> THEN m3
      ELSE Method4Scan(msgs, n, initial)

----------------------------------------------------------------------------
(* The texts the events carry and the contents the agents reply with.      *)

T_empty == <<>>
T_space == <<" ">>
T_short == <<"u597d">>
T_hello == <<"u4f60", "u597d", "uff01">>
T_software ==
  << "u8fd9", "u4e2a", "u8f6f", "u4ef6", "u7684", "u7f51", "u7edc", "u8bbe", "u7f6e",
     "u6709", "u95ee", "u9898" >>

Texts == {T_empty, T_space, T_short, T_hello, T_software}

R_empty == <<>>
R_plain == <<"u8fd9", "u4e2a", "u8f6f", "u4ef6", "u5f88", "u597d", "u7528">>
R_opt ==
  << "u8fd9", "u4e2a", "u8f6f", "u4ef6", "u5f88", "u597d", "u7528", " ", "O", "P", "T", "I",
     "M", "I", "Z", "A", "T", "I", "O", "N", "_", "C", "O", "M", "P", "L", "E", "T", "E" >>
R_tc ==
  << "u9019", "u500b", "u8edf", "u9ad4", "u5f88", "u597d", "u7528", " ", "T", "R", "A", "D",
     "I", "T", "I", "O", "N", "A", "L", "_", "C", "H", "I", "N", "E", "S", "E", "_", "C",
     "O", "M", "P", "L", "E", "T", "E" >>
R_tcOnly ==
  << "T", "R", "A", "D", "I", "T", "I", "O", "N", "A", "L", "_", "C", "H", "I", "N", "E",
     "S", "E", "_", "C", "O", "M", "P", "L", "E", "T", "E" >>

Replies == {R_empty, R_plain, R_opt, R_tc, R_tcOnly}

\* the contents an agent of the voice team replies with
TeamReplies == {R_empty, R_opt, R_tc, R_tcOnly}

\* str(e) of an exception of the transcription
ErrorText == <<"4", "0", "3">>

\* str(result) of a team result without messages
StrOfResult == <<"T", "a", "s", "k", "R", "e", "s", "u", "l", "t", "(", ")">>

----------------------------------------------------------------------------
(* Constants of the source and the bookkeeping of a run.                   *)

\* asyncio.wait_for(..., timeout=15.0) and timeout=30.0; MaxMessageTermination(8);
\* len(text.strip()) < 3
StageTimeout == 15
TeamTimeout == 30
MaxMessages == 8
MinInputLength == 3

\* the prompts _send_error pushes
RetryPrompt ==
  << "u274c", " ", "u8a9e", "u97f3", "u8655", "u7406", "u5931", "u6557", "uff0c", "u8acb",
     "u91cd", "u8a66" >>
ErrorPrompt ==
  << "u274c", " ", "u8655", "u7406", "u904e", "u7a0b", "u4e2d", "u767c", "u751f", "u932f",
     "u8aa4" >>

NoCall == [who |-> "none", input |-> <<>>, deadline |-> 0]
NoResult == [kind |-> "none", val |-> <<>>]

\* the failed calls among the outcomes os, and of the run so far
FailuresOf(os) == Len(SelectSeq(os, LAMBDA o : o # "success"))
Failures == FailuresOf(outcomes)

\* The entry point returns the string val, whose refined text is fin.  In main.py
\* _process_audio_message then deletes the audio file (cleanup_file) and the
\* handler pushes the processed text (_send_result).
Return(e, val, fin) ==
  /\ pc' = "done"
  /\ result' = [kind |-> "str", val |-> val]
  /\ final_text' = fin
  /\ inflight' = NoCall
  /\ pushes' = IF e = "main_audio"
               THEN Append(pushes, [kind |-> "result", text |-> val])
               ELSE pushes
  /\ cleaned' = (cleaned \/ e = "main_audio")
  /\ UNCHANGED calls

\* The run awaits the remote call of who on input, under a deadline (0: none),
\* issued after the outcomes os.
Await(state, who, input, deadline, os) ==
  /\ pc' = state
  /\ inflight' = [who |-> who, input |-> input, deadline |-> deadline]
  /\ calls' = Append(calls, [who |-> who, input |-> input, deadline |-> deadline,
                             after |-> FailuresOf(os)])
  /\ UNCHANGED <<result, final_text, pushes, cleaned>>

\* the texts a transcription can yield: stripped and not empty
Transcripts == {t \in Texts : t # <<>> /\ Strip(t) = t}

----------------------------------------------------------------------------
(* AutoGenProcessor.process_text (src/src/models.py).                      *)

\* A faulty variant of ProcessTextBody, kept for comparison: only the framework
\* is tested, and not the team.
ProcessTextBodyIgnoresTeam(e, t) ==
  /\ text' = t
  /\ pipeline_invoked' = TRUE
  /\ IF ~AUTOGEN_AVAILABLE
     THEN LET f == _fallback_processing(t) IN Return(e, f, f)
     ELSE Await("stage1", "content_optimizer", t, StageTimeout, outcomes)
  /\ UNCHANGED <<config, services, loop_running, nested_loop, outcomes, optimized_text, messages>>

\* process_text up to its first await: without the framework or the team it
\* returns the fallback; otherwise asyncio.run(_simple_agent_processing(text))
\* awaits the optimizer agent.
ProcessTextBody(e, t) ==
  /\ text' = t
  /\ pipeline_invoked' = TRUE
  /\ IF ~AUTOGEN_AVAILABLE \/ ~team
     THEN LET f == _fallback_processing(t) IN Return(e, f, f)
     ELSE Await("stage1", "content_optimizer", t, StageTimeout, outcomes)
  /\ UNCHANGED <<config, services, loop_running, nested_loop, outcomes, optimized_text, messages>>

\* a direct call of process_text (main.py hands it the stripped text message)
CallProcessText ==
  /\ pc = "idle" /\ app = "main"
  /\ \E t \in Texts :
       /\ entry' = "process_text"
       /\ ProcessTextBody("process_text", t)
  /\ UNCHANGED <<download, stt>>

\* A faulty variant of Stage1Reply, kept for comparison: step 2 is sent the
\* original text instead of step 1's output.
Stage1ReplyFeedsOriginal ==
  /\ pc = "stage1"
  /\ \E r \in Replies :
       /\ optimized_text' = r
       /\ outcomes' = Append(outcomes, "success")
       /\ Await("stage2", "traditional_chinese_converter", text, StageTimeout,
                Append(outcomes, "success"))
  /\ UNCHANGED <<config, services, entry, text, loop_running, nested_loop, pipeline_invoked,
                 messages, download, stt>>

\* _simple_agent_processing, step 1 answered: step 2 sends optimized_text on
Stage1Reply ==
  /\ pc = "stage1"
  /\ \E r \in Replies :
       /\ optimized_text' = r
       /\ outcomes' = Append(outcomes, "success")
       /\ Await("stage2", "traditional_chinese_converter", r, StageTimeout,
                Append(outcomes, "success"))
  /\ UNCHANGED <<config, services, entry, text, loop_running, nested_loop, pipeline_invoked,
                 messages, download, stt>>

\* step 2 answered: final_text is returned by process_text as it is
Stage2Reply ==
  /\ pc = "stage2"
  /\ \E r \in Replies :
       /\ outcomes' = Append(outcomes, "success")
       /\ Return(entry, r, r)
  /\ UNCHANGED <<config, services, entry, text, loop_running, nested_loop, pipeline_invoked,
                 optimized_text, messages, download, stt>>

\* What a failed await reports to process_text.  asyncio.TimeoutError is caught
\* and replaced by a plain Exception that carries only a message; any other
\* exception is raised again as it is.
Reported(who, k) ==
  IF k = "timeout"
  THEN [type |-> "Exception",
        message |-> IF who = "team" THEN "AutoGen collaboration timeout"
                    ELSE "Simple agent processing timeout"]
  ELSE [type |-> "ProviderError", message |-> "error"]

\* the class that the except clauses of process_text catch: every failure
GenericFailure == "Exception"

\* A faulty variant of StageFailure, kept for comparison: the failed step is
\* awaited again instead of handing the text to the team collaboration.
StageFailureRetries ==
  /\ pc \in {"stage1", "stage2"}
  /\ Failures < 2
  /\ \E k \in {"timeout", "provider_error"} :
       /\ outcomes' = Append(outcomes, k)
       /\ Await(pc, inflight.who, inflight.input, StageTimeout, Append(outcomes, k))
  /\ UNCHANGED <<config, services, entry, text, loop_running, nested_loop, pipeline_invoked,
                 optimized_text, messages, download, stt>>

\* A step of _simple_agent_processing times out or raises: it raises to
\* process_text, which then tries the team collaboration on the same text.
StageFailure ==
  /\ pc \in {"stage1", "stage2"}
  /\ \E k \in {"timeout", "provider_error"} :
       /\ outcomes' = Append(outcomes, k)
       /\ Await("team", "team", TeamTask(text), TeamTimeout, Append(outcomes, k))
  /\ UNCHANGED <<config, services, entry, text, loop_running, nested_loop, pipeline_invoked,
                 optimized_text, messages, download, stt>>

\* _run_team_collaboration returns the content of the last message, or
\* str(result) when the result has no messages
TeamReply ==
  /\ pc = "team"
  /\ \E r \in Replies \cup {StrOfResult} :
       /\ outcomes' = Append(outcomes, "success")
       /\ Return(entry, r, r)
  /\ UNCHANGED <<config, services, entry, text, loop_running, nested_loop, pipeline_invoked,
                 optimized_text, messages, download, stt>>

\* A faulty variant of TeamFailure, kept for comparison: the fallback is
\* computed from step 1's output instead of the text process_text was given.
TeamFailureFromIntermediate ==
  /\ pc = "team"
  /\ \E k \in {"timeout", "provider_error"} :
       /\ outcomes' = Append(outcomes, k)
       /\ LET f == _fallback_processing(optimized_text) IN Return(entry, f, f)
  /\ UNCHANGED <<config, services, entry, text, loop_running, nested_loop, pipeline_invoked,
                 optimized_text, messages, download, stt>>

\* the team collaboration times out or raises: process_text returns the fallback
TeamFailure ==
  /\ pc = "team"
  /\ \E k \in {"timeout", "provider_error"} :
       /\ outcomes' = Append(outcomes, k)
       /\ LET f == _fallback_processing(text) IN Return(entry, f, f)
  /\ UNCHANGED <<config, services, entry, text, loop_running, nested_loop, pipeline_invoked,
                 optimized_text, messages, download, stt>>

----------------------------------------------------------------------------
(* AutoGenVoiceProcessor (src/agents/autogen_voice_processor.py).          *)

\* the two early returns of _optimize_with_agents
SkipsAgents(t) == ~ENABLE_TEXT_OPTIMIZATION \/ Len(Strip(t)) < MinInputLength

\* loop.run_until_complete raises RuntimeError when a loop is already running
\* in the thread; the except clause of _optimize_with_agents catches it.
RunUntilCompleteRaises(running) == running

\* _optimize_with_agents up to the team's run, or to its return
OptimizeBody(e, t, running) ==
  /\ text' = t
  /\ pipeline_invoked' = TRUE
  /\ loop_running' = running
  /\ IF SkipsAgents(t)
     THEN /\ LET c == _convert_to_traditional_chinese(t) IN Return(e, ResultText(t, c), c)
          /\ UNCHANGED <<nested_loop, messages>>
     ELSE IF RunUntilCompleteRaises(running)
     THEN /\ nested_loop' = TRUE
          /\ LET c == _convert_to_traditional_chinese(t) IN Return(e, ResultText(t, c), c)
          /\ UNCHANGED messages
     ELSE /\ Await("vteam", "team", InitialMessage(t), 0, outcomes)
          /\ messages' = <<[source |-> "user", content |-> InitialMessage(t)]>>
          /\ UNCHANGED nested_loop
  /\ UNCHANGED <<config, services, outcomes, optimized_text>>

\* _optimize_with_agents called from synchronous code
CallOptimize ==
  /\ pc = "idle" /\ app = "voice"
  /\ \E t \in Texts :
       /\ entry' = "optimize"
       /\ OptimizeBody("optimize", t, FALSE)
  /\ UNCHANGED <<download, stt>>

\* async optimize_text: _optimize_with_agents runs inside the caller's loop
CallOptimizeText ==
  /\ pc = "idle" /\ app = "voice"
  /\ \E t \in Texts :
       /\ entry' = "optimize_text"
       /\ OptimizeBody("optimize_text", t, TRUE)
  /\ UNCHANGED <<download, stt>>

\* what transcribe_audio returns: the transcript, or a text that reports that
\* nothing was recognized or that the transcription raised
Transcription(o, t) ==
  IF o = "ok" THEN t
  ELSE IF o = "no_text" THEN NoSpeechRecognized
  ELSE TranscribeFailedPrefix \o ErrorText

\* async process_audio: transcribe_audio, then _optimize_with_agents on what it
\* returned, inside the caller's loop
CallProcessAudio ==
  /\ pc = "idle" /\ app = "voice"
  /\ \E o \in {"ok", "no_text", "failed"} : \E t \in Transcripts :
       /\ o # "ok" => t = T_hello
       /\ entry' = "process_audio"
       /\ stt' = o
       /\ OptimizeBody("process_audio", Transcription(o, t), TRUE)
  /\ UNCHANGED download

\* RoundRobinGroupChat([speech_agent, optimization_agent, traditional_chinese_agent])
Participants == <<"speech_processor", "content_optimizer", "traditional_chinese_converter">>
NextSpeaker(msgs) == Participants[((Len(msgs) - 1) % Len(Participants)) + 1]

\* MaxMessageTermination(8) | TextMentionTermination("TRADITIONAL_CHINESE_COMPLETE")
Terminated(msgs) ==
  \/ Len(msgs) >= MaxMessages
  \/ \E i \in 2..Len(msgs) : Contains(msgs[i].content, TRADITIONAL_CHINESE_COMPLETE)

\* the next agent of the running team replies
TeamTurn ==
  /\ pc = "vteam"
  /\ ~Terminated(messages)
  /\ \E r \in TeamReplies :
       messages' = Append(messages, [source |-> NextSpeaker(messages), content |-> r])
  /\ UNCHANGED <<config, services, pc, entry, text, loop_running, nested_loop, pipeline_invoked, calls,
                 outcomes, inflight, optimized_text, result, final_text, download, stt,
                 pushes, cleaned>>

\* what _optimize_with_agents makes of the team's messages: the cleaned
\* extraction, or the converted input when nothing was extracted
OptimizedPart(msgs, t) ==
  LET x == ExtractOptimized(msgs, InitialMessage(t)) IN
  IF x # <<>> THEN _clean_optimized_text(x) ELSE _convert_to_traditional_chinese(t)

\* team.run returns: extraction, cleaning, the result text
TeamReturn ==
  /\ pc = "vteam"
  /\ Terminated(messages)
  /\ outcomes' = Append(outcomes, "success")
  /\ LET o == OptimizedPart(messages, text) IN Return(entry, ResultText(text, o), o)
  /\ UNCHANGED <<config, services, entry, text, loop_running, nested_loop, pipeline_invoked,
                 optimized_text, messages, download, stt>>

\* A faulty variant of TeamRaises, kept for comparison: without the except
\* clause the exception of team.run reaches the caller.
TeamRaisesPropagates ==
  /\ pc = "vteam"
  /\ outcomes' = Append(outcomes, "provider_error")
  /\ messages' = <<>>
  /\ pc' = "done"
  /\ result' = [kind |-> "raise", val |-> <<>>]
  /\ inflight' = NoCall
  /\ UNCHANGED <<config, services, entry, text, loop_running, nested_loop, pipeline_invoked,
                 optimized_text, download, stt, calls, final_text, pushes, cleaned>>

\* team.run raises: there is no result, and the except clause returns the
\* converted input
TeamRaises ==
  /\ pc = "vteam"
  /\ outcomes' = Append(outcomes, "provider_error")
  /\ messages' = <<>>
  /\ LET c == _convert_to_traditional_chinese(text) IN Return(entry, ResultText(text, c), c)
  /\ UNCHANGED <<config, services, entry, text, loop_running, nested_loop, pipeline_invoked,
                 optimized_text, download, stt>>

----------------------------------------------------------------------------
(* AutoGenVoiceBot's audio handler (src/main.py).                          *)

\* A faulty variant of SendError, kept for comparison: the failure is logged
\* and nothing is pushed.
SendErrorOnlyLogs(prompt) ==
  /\ pc' = "done"
  /\ result' = [kind |-> "None", val |-> <<>>]
  /\ pushes' = pushes
  /\ UNCHANGED <<text, pipeline_invoked, config, services, loop_running, nested_loop, outcomes,
                 optimized_text, messages, calls, inflight, final_text>>

\* _send_error(user_id, msg) instead of a result
SendError(prompt) ==
  /\ pc' = "done"
  /\ result' = [kind |-> "None", val |-> <<>>]
  /\ pushes' = Append(pushes, [kind |-> "error", text |-> prompt])
  /\ UNCHANGED <<text, pipeline_invoked, config, services, loop_running, nested_loop, outcomes,
                 optimized_text, messages, calls, inflight, final_text>>

\* A faulty variant of HandleAudioMessage, kept for comparison: when the
\* transcription yields nothing the file is left where it is.
HandleAudioMessageKeepsFile ==
  /\ pc = "idle" /\ app = "main"
  /\ entry' = "main_audio"
  /\ \/ /\ download' = "none" /\ stt' = "none"
        /\ cleaned' = FALSE
        /\ SendError(ErrorPrompt)
     \/ /\ download' = "failed" /\ stt' = "none"
        /\ cleaned' = FALSE
        /\ SendError(RetryPrompt)
     \/ /\ download' = "ok" /\ stt' \in {"no_text", "failed"}
        /\ cleaned' = FALSE
        /\ SendError(RetryPrompt)
     \/ /\ download' = "ok" /\ stt' = "ok"
        /\ \E t \in Transcripts : ProcessTextBody("main_audio", t)

\* handle_audio_message and _process_audio_message up to process_text's first
\* await: the reply, the download, the transcription
HandleAudioMessage ==
  /\ pc = "idle" /\ app = "main"
  /\ entry' = "main_audio"
  /\ \/ /\ download' = "none" /\ stt' = "none"      \* reply_message raises
        /\ cleaned' = FALSE
        /\ SendError(ErrorPrompt)
     \/ /\ download' = "failed" /\ stt' = "none"    \* download_audio returns None
        /\ cleaned' = FALSE
        /\ SendError(RetryPrompt)
     \/ /\ download' = "ok" /\ stt' \in {"no_text", "failed"}  \* speech_to_text returns None
        /\ cleaned' = TRUE                          \* cleanup_file(audio_path)
        /\ SendError(RetryPrompt)
     \/ /\ download' = "ok" /\ stt' = "ok"
        /\ \E t \in Transcripts : ProcessTextBody("main_audio", t)

----------------------------------------------------------------------------
(* LineVoiceBot's audio handler (src/line_bot_app.py).                     *)

\* what _fallback_processing returns when it fails, and the three error messages
LineFailureText ==
  << "u8a9e", "u97f3", "u8655", "u7406", "u5931", "u6557", "uff0c", "u8acb", "u91cd", "u8a66" >>
LineDownloadFailed ==
  << "u8a9e", "u97f3", "u6a94", "u6848", "u4e0b", "u8f09", "u5931", "u6557" >>
LineProcessFailed ==
  << "u8a9e", "u97f3", "u8655", "u7406", "u5931", "u6557", "uff0c", "u8acb", "u91cd", "u8a66" >>
LineHandlerError ==
  << "u8655", "u7406", "u904e", "u7a0b", "u4e2d", "u767c", "u751f", "u932f", "u8aa4", "uff0c",
     "u8acb", "u91cd", "u8a66" >>

\* the literals of _send_error_message and of _send_processed_result
LineErrorMark ==
  << "u274c", " " >>
LineErrorAdvice ==
  << "LF", "LF", "u8acb", "u91cd", "u65b0", "u767c", "u9001", "u8a9e", "u97f3", "u8a0a", "u606f",
     "uff0c", "u6216", "u806f", "u7d61", "u5ba2", "u670d", "u5354", "u52a9", "u3002" >>
LineHeader ==
  << "u2728", " ", "u8a9e", "u97f3", "u8f49", "u6587", "u5b57", "u5b8c", "u6210", "LF", "LF" >>
LineOriginalHeading ==
  << "u1f3af", " ", "u539f", "u59cb", "u6587", "u5b57", "uff1a", "LF" >>
LineOptimizedHeading ==
  << "u1f4dd", " ", "A", "I", " ", "u512a", "u5316", "u7d50", "u679c", "uff1a", "LF" >>
LineNothing ==
  << "u274c", " ", "u7121", "u6cd5", "u8655", "u7406", "u60a8", "u7684", "u8a9e", "u97f3",
     "u5167", "u5bb9" >>
LineOriginalLabel ==
  << "u539f", "u59cb", "u6587", "u5b57", "uff1a" >>
LineOptimizedLabel ==
  << "u512a", "u5316", "u5f8c", "u7684", "u6587", "u5b57", "uff1a" >>

\* f"原始文字：{transcription}\n優化結果：{transcription}": what _fallback_processing
\* returns when its transcription succeeds
LineFallbackLabel == <<"LF", "u512a", "u5316", "u7d50", "u679c", "uff1a">>
LineFallbackText(transcription) ==
  LineOriginalLabel \o transcription \o LineFallbackLabel \o transcription

\* line_bot_app.py imports os, tempfile, traceback, datetime, typing, pathlib,
\* flask, linebot, dotenv, loguru and AutoGenVoiceProcessor: asyncio is not a
\* name of the module, and every use of it raises NameError.
AsyncioBound == FALSE

\* the index of the first occurrence of p in s
FirstIndex(s, p) ==
  CHOOSE i \in 1..(Len(s) + 1) : MatchAt(s, p, i) /\ \A j \in 1..(i - 1) : ~MatchAt(s, p, j)

\* _send_processed_result: the two parts of the result, or the result as it is
ParsedOriginal(res) ==
  IF Contains(res, LineOriginalLabel) /\ Contains(res, LineOptimizedLabel)
  THEN Strip(Replace(SubSeq(res, 1, FirstIndex(res, LineOptimizedLabel) - 1),
                     LineOriginalLabel, <<>>))
  ELSE <<>>
ParsedOptimized(res) ==
  IF Contains(res, LineOriginalLabel) /\ Contains(res, LineOptimizedLabel)
  THEN Strip(SubSeq(res, FirstIndex(res, LineOptimizedLabel) + Len(LineOptimizedLabel),
                    Len(res)))
  ELSE res
ResponseText(res) ==
  LineHeader
  \o (IF ParsedOriginal(res) # <<>>
      THEN LineOriginalHeading \o ParsedOriginal(res) \o <<"LF", "LF">> ELSE <<>>)
  \o (IF ParsedOptimized(res) # <<>>
      THEN LineOptimizedHeading \o ParsedOptimized(res) ELSE LineNothing)

\* _send_error_message(user_id, msg) and no result
SendLineError(msg) ==
  /\ result' = [kind |-> "None", val |-> <<>>]
  /\ pushes' = Append(pushes, [kind |-> "error",
                               text |-> LineErrorMark \o msg \o LineErrorAdvice])
  /\ UNCHANGED loop_running

\* _process_with_autogen_sync on a file that exists and is not empty, called
\* with or without a running loop in the thread.  asyncio.get_event_loop()
\* raises NameError, which `except RuntimeError` does not catch; the outer
\* except calls _fallback_processing, whose asyncio.new_event_loop() raises
\* NameError again, and which returns its failure text.  Neither
\* _run_autogen_in_thread nor process_audio is called.
ProcessWithAutogenSync ==
  \E running \in BOOLEAN :
    /\ loop_running' = running
    /\ ~AsyncioBound
    /\ result' = [kind |-> "str", val |-> LineFailureText]
    /\ pushes' = Append(pushes, [kind |-> "result", text |-> ResponseText(LineFailureText)])

\* handle_audio_message: the reply, the download, the processing, the push
HandleLineAudio ==
  /\ pc = "idle" /\ app = "linebot"
  /\ entry' = "line_audio"
  /\ pc' = "done"
  /\ stt' = "none"
  /\ \/ /\ download' = "none"       \* reply_message raises
        /\ cleaned' = FALSE
        /\ SendLineError(LineHandlerError)
     \/ /\ download' = "failed"     \* _download_audio_sync returns None: return
        /\ cleaned' = FALSE
        /\ SendLineError(LineDownloadFailed)
     \/ /\ download' = "empty"      \* the file is missing or empty: None
        /\ cleaned' = TRUE          \* _cleanup_temp_file(audio_path)
        /\ SendLineError(LineProcessFailed)
     \/ /\ download' = "ok"
        /\ cleaned' = TRUE          \* _cleanup_temp_file(audio_path)
        /\ ProcessWithAutogenSync
  /\ UNCHANGED <<config, services, text, pipeline_invoked, nested_loop, outcomes, optimized_text,
                 messages, calls, inflight, final_text>>

----------------------------------------------------------------------------
(* The next event: the processors are kept, the run's state is not.        *)

----------------------------------------------------------------------------
(* The GoogleSTTProcessor and the UserStorage after construction           *)
(* (src/agents/google_stt_processor.py, src/src/storage.py).               *)

\* the request threads (app.run(threaded=True)) and the users
NumThreads == 2
Threads == 1..NumThreads
Users == {"u1", "u2"}

\* no local of that name yet
Unset == "unset"

\* GoogleSTTProcessor.__init__, and no call of transcribe_audio_with_timestamps
SttConstructed ==
  /\ enable_word_time_offsets = FALSE
  /\ original_setting = [t \in Threads |-> Unset]
  /\ stt_pc = [t \in Threads |-> "idle"]

\* {'users': {}, 'interactions': []}: initial_data of _init_json_storage, the
\* default of _load_json_data, and the two tables of a new TinyDB database
EmptyData == [users |-> [u \in {} |-> Unset], interactions |-> <<>>]

\* UserStorage.__init__ in a directory without files, and no call of
\* save_interaction
StorageConstructed ==
  /\ db = EmptyData
  /\ json_file = EmptyData
  /\ data = [t \in Threads |-> Unset]
  /\ store_pc = [t \in Threads |-> [at |-> "idle", user_id |-> Unset, calls |-> 0]]

----------------------------------------------------------------------------
(* AutoGenProcessor after construction (src/src/models.py).                *)

\* the steps of the constructor that can raise: _initialize_client, the two
\* AssistantAgent calls and the RoundRobinGroupChat call of _initialize_agents
InitSteps == {"client", "optimizer_agent", "traditional_agent", "team"}

\* The processor after __init__, whose step `failed` raised ("none": no step).
\* Every field starts as None; without the framework nothing is initialized;
\* the exception of a step ends the initialization, and the fields assigned
\* before it keep their values.
Constructed(failed) ==
  /\ client = (AUTOGEN_AVAILABLE /\ failed # "client")
  /\ optimizer_agent = (client /\ failed # "optimizer_agent")
  /\ traditional_agent = (optimizer_agent /\ failed # "traditional_agent")
  /\ team = (traditional_agent /\ failed # "team")

NextEvent ==
  /\ pc = "done"
  /\ pc' = "idle"
  /\ entry' = "none" /\ text' = <<>>
  /\ loop_running' = FALSE /\ nested_loop' = FALSE /\ pipeline_invoked' = FALSE
  /\ calls' = <<>> /\ outcomes' = <<>> /\ inflight' = NoCall
  /\ optimized_text' = <<>> /\ messages' = <<>>
  /\ result' = NoResult /\ final_text' = <<>>
  /\ download' = "none" /\ stt' = "none" /\ pushes' = <<>> /\ cleaned' = FALSE
  /\ UNCHANGED <<config, services>>

Init ==
  /\ app \in {"main", "voice", "linebot"}
  /\ ENABLE_TEXT_OPTIMIZATION \in BOOLEAN
  /\ opencc \in {"installed", "missing", "broken"}
  /\ AUTOGEN_AVAILABLE \in BOOLEAN
  /\ \E failed \in InitSteps \cup {"none"} : Constructed(failed)
  \* main.py does not convert with opencc; AutoGenVoiceProcessor's constructor
  \* raises unless its team was built
  /\ app = "main" => opencc = "missing"
  /\ app \in {"voice", "linebot"} => AUTOGEN_AVAILABLE /\ team
  /\ pc = "idle"
  /\ entry = "none" /\ text = <<>>
  /\ loop_running = FALSE /\ nested_loop = FALSE /\ pipeline_invoked = FALSE
  /\ calls = <<>> /\ outcomes = <<>> /\ inflight = NoCall
  /\ optimized_text = <<>> /\ messages = <<>>
  /\ result = NoResult /\ final_text = <<>>
  /\ download = "none" /\ stt = "none" /\ pushes = <<>> /\ cleaned = FALSE
  /\ SttConstructed
  /\ TINYDB_AVAILABLE = TRUE /\ StorageConstructed

Next ==
  \/ CallProcessText
  \/ Stage1Reply
  \/ Stage2Reply
  \/ StageFailure
  \/ TeamReply
  \/ TeamFailure
  \/ CallOptimize
  \/ CallOptimizeText
  \/ CallProcessAudio
  \/ TeamTurn
  \/ TeamReturn
  \/ TeamRaises
  \/ HandleAudioMessage
  \/ HandleLineAudio
  \/ NextEvent

Spec == Init /\ [][Next]_vars

----------------------------------------------------------------------------
(* The properties.                                                         *)

\* the run is over and the pipeline returned a string
Returned == pc = "done" /\ pipeline_invoked /\ result.kind = "str"

Markers == {SPEECH_PROCESSED, OPTIMIZATION_COMPLETE, TRADITIONAL_CHINESE_COMPLETE}

\* C1: the final text the pipeline returns is never empty, whatever the input
\* (the empty and the whitespace-only text included) and whatever the agents
\* replied.
C1_FinalTextNonEmpty == Returned => final_text # <<>>

C3_ShortInputSkipsAgents ==
  (pipeline_invoked /\ Len(Strip(text)) < MinInputLength) =>
    /\ calls = <<>>
    /\ pc = "done" =>
         final_text = IF app = "voice" THEN _convert_to_traditional_chinese(text)
                      ELSE _fallback_processing(text)

C5_NoMarkerInFinalText == Returned => \A m \in Markers : ~Contains(final_text, m)

\* C6: process_text and _optimize_with_agents return a string whatever remote
\* call fails; no exception reaches the caller.
C6_AlwaysReturnsString == (pc = "done" /\ pipeline_invoked) => result.kind = "str"

\* a remote call failed, or run_until_complete raised, and a string came back
C6_Witness ==
  /\ pc = "done" /\ pipeline_invoked /\ result.kind = "str"
  /\ Failures > 0 \/ nested_loop

\* C7: run_until_complete is never called in a thread whose event loop is
\* running.
C7_NoNestedLoop == ~nested_loop

\* C8: every remote call is awaited under a deadline.
C8_EveryCallHasDeadline == \A i \in 1..Len(calls) : calls[i].deadline > 0

\* C9: with ENABLE_TEXT_OPTIMIZATION off no agent or team call is made.
C9_DisabledRunsNoAgent == ~ENABLE_TEXT_OPTIMIZATION => calls = <<>>

\* C10: when the download or the transcription failed or yielded no text, the
\* pipeline is not invoked and the result is absent.
C10_NoPipelineAfterEarlyFailure ==
  (download = "failed" \/ stt \in {"no_text", "failed"}) =>
    /\ ~pipeline_invoked
    /\ pc = "done" => result.kind = "None"

----------------------------------------------------------------------------
(* The extraction of _optimize_with_agents on its own: result.messages is  *)
(* the task followed by up to MaxTurns turns, whatever the team's          *)
(* termination would allow.                                                *)

MaxTurns == 3

\* contents of turns: a short one, the marker before and after a text
X_short == <<"x">>
X_markerFirst == TRADITIONAL_CHINESE_COMPLETE \o <<" ", "y">>
X_markerLast == <<"z", " ">> \o TRADITIONAL_CHINESE_COMPLETE

\* the text of the extraction runs and its initial_message
ExtractText == T_hello
Echo == InitialMessage(ExtractText)

Turns ==
  { [source |-> "speech_processor", content |-> X_short],
    [source |-> "speech_processor", content |-> R_plain],
    [source |-> "content_optimizer", content |-> Echo],
    [source |-> "content_optimizer", content |-> R_opt],
    [source |-> "traditional_chinese_converter", content |-> X_markerFirst],
    [source |-> "traditional_chinese_converter", content |-> X_markerLast],
    [source |-> "traditional_chinese_converter", content |-> R_plain],
    [source |-> "traditional_chinese_converter", content |-> Echo] }

TurnSeqs == UNION {[1..n -> Turns] : n \in 0..MaxTurns}

ExtractInit ==
  /\ app = "voice"
  /\ ENABLE_TEXT_OPTIMIZATION = TRUE
  /\ opencc = "installed"
  /\ AUTOGEN_AVAILABLE = TRUE /\ Constructed("none")
  /\ pc = "extract"
  /\ entry = "optimize" /\ text = ExtractText
  /\ loop_running = FALSE /\ nested_loop = FALSE /\ pipeline_invoked = TRUE
  /\ calls = <<>> /\ outcomes = <<>> /\ inflight = NoCall
  /\ optimized_text = <<>>
  /\ \E ts \in TurnSeqs :
       messages = <<[source |-> "user", content |-> InitialMessage(ExtractText)]>> \o ts
  /\ result = NoResult /\ final_text = <<>>
  /\ download = "none" /\ stt = "none" /\ pushes = <<>> /\ cleaned = FALSE
  /\ SttConstructed
  /\ TINYDB_AVAILABLE = TRUE /\ StorageConstructed

\* lines 233-296: optimized_text after the four methods
Extract ==
  /\ pc = "extract"
  /\ pc' = "extracted"
  /\ optimized_text' = ExtractOptimized(messages, InitialMessage(text))
  /\ UNCHANGED <<config, services, entry, text, loop_running, nested_loop, pipeline_invoked, calls,
                 outcomes, inflight, messages, result, final_text, download, stt, pushes, cleaned>>

\* lines 298-309: the cleaned extraction, or the converted input
ExtractReturn ==
  /\ pc = "extracted"
  /\ pc' = "done"
  /\ LET o == IF optimized_text # <<>> THEN _clean_optimized_text(optimized_text)
              ELSE _convert_to_traditional_chinese(text)
     IN  /\ result' = [kind |-> "str", val |-> ResultText(text, o)]
         /\ final_text' = o
  /\ UNCHANGED <<config, services, entry, text, loop_running, nested_loop, pipeline_invoked, calls,
                 outcomes, inflight, messages, optimized_text, download, stt, pushes, cleaned>>

ExtractNext == Extract \/ ExtractReturn

ExtractSpec == ExtractInit /\ [][ExtractNext]_vars

\* the turns after the task, and the last turn of a source
AgentTurns == SubSeq(messages, 2, Len(messages))
TurnsOf(source) == {i \in 2..Len(messages) : messages[i].source = source}
LastTurnOf(source) == CHOOSE i \in TurnsOf(source) : \A j \in TurnsOf(source) : j <= i

\* a turn's content without the marker and the whitespace around it
WithoutMarker(content, marker) == Strip(Replace(Strip(content), marker, <<>>))

\* C11: on the turns [A: "x", B: "MARKER y", B: "z MARKER"] the extraction for
\* source B returns "z"; whenever the most recent turn of the converter holds
\* the marker and more, that turn is selected, without the marker and the
\* whitespace around it.
C11_MostRecentMarkerTurn ==
  pc = "extracted" =>
    /\ AgentTurns = << [source |-> "speech_processor", content |-> X_short],
                       [source |-> "traditional_chinese_converter", content |-> X_markerFirst],
                       [source |-> "traditional_chinese_converter", content |-> X_markerLast] >>
         => optimized_text = <<"z">>
    /\ \A i \in TurnsOf("traditional_chinese_converter") :
         ( /\ i = LastTurnOf("traditional_chinese_converter")
           /\ Contains(messages[i].content, TRADITIONAL_CHINESE_COMPLETE)
           /\ WithoutMarker(messages[i].content, TRADITIONAL_CHINESE_COMPLETE) # <<>> )
         => optimized_text = WithoutMarker(messages[i].content, TRADITIONAL_CHINESE_COMPLETE)

\* the extraction ran on the three turns of the scenario
C11_Witness ==
  /\ pc = "extracted"
  /\ AgentTurns = << [source |-> "speech_processor", content |-> X_short],
                     [source |-> "traditional_chinese_converter", content |-> X_markerFirst],
                     [source |-> "traditional_chinese_converter", content |-> X_markerLast] >>
  /\ optimized_text = <<"z">>

\* the turns of a source that hold the marker and more
MarkerTurnsOf(source, marker) ==
  {i \in TurnsOf(source) : /\ Contains(messages[i].content, marker)
                           /\ WithoutMarker(messages[i].content, marker) # <<>>}

\* C17: a turn of the expected source that holds the marker is selected in
\* preference to any turn of that source without it, also a more recent one.
C17_MarkerTurnPreferred ==
  pc = "extracted" =>
    \A i \in MarkerTurnsOf("traditional_chinese_converter", TRADITIONAL_CHINESE_COMPLETE) :
      (\A j \in MarkerTurnsOf("traditional_chinese_converter", TRADITIONAL_CHINESE_COMPLETE) :
         j <= i)
      => optimized_text = WithoutMarker(messages[i].content, TRADITIONAL_CHINESE_COMPLETE)

\* C19: the extraction never selects a turn whose content is the prompt.
C19_NeverSelectsEcho == pc = "extracted" => optimized_text # InitialMessage(text)

----------------------------------------------------------------------------
(* The fallback conversions on their own, applied once and once more, on   *)
(* the scenario texts and on every text of up to MaxLen characters of      *)
(* FallbackAlphabet.                                                       *)

MaxLen == 3

\* two characters of the table's entry for storage, an ASCII and an
\* ideographic sentence-final mark, and the space
FallbackAlphabet == {"u5b58", "u50a8", "!", "u3002", " "}

FallbackInputs ==
  UNION {[1..n -> FallbackAlphabet] : n \in 0..MaxLen} \cup {T_hello, T_software}

\* what a run that does not use the agents makes of the text: process_text
\* returns _fallback_processing(text), _optimize_with_agents the conversion
Conversion(txt) ==
  IF app = "main" THEN _basic_traditional_conversion(txt)
  ELSE _convert_to_traditional_chinese(txt)
FallbackConverter(txt) ==
  IF app = "main" THEN _fallback_processing(txt)
  ELSE _convert_to_traditional_chinese(txt)

FallbackInit ==
  /\ app \in {"main", "voice"}
  /\ ENABLE_TEXT_OPTIMIZATION = FALSE
  /\ opencc = "missing"
  /\ AUTOGEN_AVAILABLE = (app = "voice") /\ Constructed("none")
  /\ pc = "fallback"
  /\ entry = IF app = "main" THEN "process_text" ELSE "optimize"
  /\ text \in FallbackInputs
  /\ loop_running = FALSE /\ nested_loop = FALSE /\ pipeline_invoked = TRUE
  /\ calls = <<>> /\ outcomes = <<>> /\ inflight = NoCall
  /\ optimized_text = <<>> /\ messages = <<>>
  /\ result = NoResult /\ final_text = <<>>
  /\ download = "none" /\ stt = "none" /\ pushes = <<>> /\ cleaned = FALSE
  /\ SttConstructed
  /\ TINYDB_AVAILABLE = TRUE /\ StorageConstructed

\* the fallback of the text
ApplyFallback ==
  /\ pc = "fallback"
  /\ pc' = "fallback_once"
  /\ final_text' = FallbackConverter(text)
  /\ UNCHANGED <<config, services, entry, text, loop_running, nested_loop, pipeline_invoked, calls,
                 outcomes, inflight, optimized_text, messages, result, download, stt, pushes, cleaned>>

\* the fallback of the fallback's output
ApplyFallbackAgain ==
  /\ pc = "fallback_once"
  /\ pc' = "fallback_twice"
  /\ result' = [kind |-> "str", val |-> FallbackConverter(final_text)]
  /\ UNCHANGED <<config, services, entry, text, loop_running, nested_loop, pipeline_invoked, calls,
                 outcomes, inflight, optimized_text, messages, final_text, download, stt,
                 pushes, cleaned>>

FallbackNext == ApplyFallback \/ ApplyFallbackAgain

FallbackSpec == FallbackInit /\ [][FallbackNext]_vars

\* "這個軟體的網路設定有問題。"
T_softwareExpected ==
  << "u9019", "u500b", "u8edf", "u9ad4", "u7684", "u7db2", "u8def", "u8a2d", "u5b9a",
     "u6709", "u554f", "u984c", "u3002" >>

\* the sentence-final marks of the claim: 。！？.!?…
SentenceFinalMarks == {"u3002", "uff01", "uff1f", ".", "!", "?", "u2026"}

\* C12: the fallback of "这个软件的网络设置有问题" is "這個軟體的網路設定有問題。".
C12_SoftwareScenario ==
  (pc = "fallback_once" /\ text = T_software) => final_text = T_softwareExpected

\* C13: a text that ends in a sentence-final mark gets no further mark from
\* the fallback: the output is the converted text, stripped.
C13_NoDoublePunctuation ==
  (pc = "fallback_once" /\ text # <<>> /\ text[Len(text)] \in SentenceFinalMarks) =>
    final_text = Strip(Conversion(text))

\* the characters of the keys and the values of the fallback's table
Vocabulary ==
  LET table == IF app = "main" THEN conversions ELSE s2t_dict IN
  UNION { {table[i][1][k] : k \in 1..Len(table[i][1])} \cup
          {table[i][2][k] : k \in 1..Len(table[i][2])} : i \in 1..Len(table) }

\* C14: the fallback is idempotent on every text whose conversion leaves
\* nothing further to substitute.
C14_IdempotentOnConverted ==
  (pc = "fallback_twice" /\ Conversion(Conversion(text)) = Conversion(text)) =>
    result.val = final_text

\* the fallback changed the text, and its second application changed nothing
C14_Witness ==
  /\ pc = "fallback_twice" /\ app = "main"
  /\ text = <<"u5b58", "u50a8">>
  /\ final_text # text /\ result.val = final_text

\* C14 as stated: the fallback is idempotent on every text of the mapped
\* vocabulary.
C14_IdempotentOnVocabulary ==
  (pc = "fallback_twice" /\ \A i \in 1..Len(text) : text[i] \in Vocabulary) =>
    result.val = final_text

----------------------------------------------------------------------------
(* Properties of the runs, continued.                                      *)

\* C18: an empty output of a stage is a failure of the stage: the next stage
\* is not invoked with it, and a run whose calls all succeeded does not return
\* the empty text.
C18_EmptyOutputIsFailure ==
  /\ pc = "stage2" => optimized_text # <<>>
  /\ (Returned /\ calls # <<>> /\ Failures = 0 /\ text # <<>>) => final_text # <<>>

\* C20: in process_text the optimizer is called first, on the original text;
\* the converter is called second, only after the optimizer returned
\* successfully, on the optimizer's output; at most one call is in flight.
C20_StagesInOrder ==
  app = "main" =>
    /\ calls # <<>> => calls[1].who = "content_optimizer" /\ calls[1].input = text
    /\ \A i \in 1..Len(calls) :
         calls[i].who = "traditional_chinese_converter" =>
           /\ i = 2
           /\ outcomes # <<>> /\ outcomes[1] = "success"
           /\ calls[i].input = optimized_text
    /\ Len(calls) = Len(outcomes) + (IF inflight = NoCall THEN 0 ELSE 1)

\* the converter is awaited on an output of the optimizer that differs from
\* the original text
C20_Witness ==
  /\ app = "main" /\ pc = "stage2"
  /\ inflight.who = "traditional_chinese_converter"
  /\ optimized_text # <<>> /\ optimized_text # text

\* C16: an audio event whose file was downloaded is handed to the voice
\* processor's run, in a worker thread when a loop is running in the caller's
\* thread and inline otherwise.
C16_BridgeDrivesRun ==
  (entry = "line_audio" /\ pc = "done" /\ download = "ok") => pipeline_invoked

\* C21: when every call of the run succeeded, the final text ends with one of
\* the sentence-final marks.
C21_SuccessEndsWithMark ==
  (Returned /\ calls # <<>> /\ Failures = 0) =>
    final_text # <<>> /\ final_text[Len(final_text)] \in SentenceFinalMarks

----------------------------------------------------------------------------
(* Properties of the fallback conversion, continued.                       *)

\* C22: a phrase of the text that has its own entry in the phrase table comes
\* out as the entry's value: the character pass does not convert it first.
C22_PhraseBeforeCharacter ==
  pc = "fallback_once" =>
    \A i \in 1..Len(conversions) :
      Contains(text, conversions[i][1]) => Contains(final_text, conversions[i][2])

----------------------------------------------------------------------------
(* Properties of the runs, continued.                                      *)

\* C23: an await that exceeded its deadline is reported to its caller as a
\* timeout of its own type, and not as the generic failure.
C23_TimeoutIsTyped ==
  \A i \in 1..Len(outcomes) :
    outcomes[i] = "timeout" => Reported(calls[i].who, outcomes[i]).type # GenericFailure

\* C24: the team exists only if the client and both agents were created; when
\* the framework is missing or a step of the initialization failed,
\* process_text calls no agent and returns _fallback_processing(text).
C24_NoTeamMeansFallback ==
  /\ team => client /\ optimizer_agent /\ traditional_agent
  /\ (app = "main" /\ pipeline_invoked
         /\ ~(AUTOGEN_AVAILABLE /\ client /\ optimizer_agent /\ traditional_agent /\ team)) =>
       /\ calls = <<>>
       /\ pc = "done"
       /\ result = [kind |-> "str", val |-> _fallback_processing(text)]

\* the framework is there and both agents were created, the team was not, and
\* process_text returned the fallback of a text that the fallback changes
C24_Witness ==
  /\ app = "main" /\ pc = "done" /\ pipeline_invoked
  /\ AUTOGEN_AVAILABLE /\ optimizer_agent /\ traditional_agent /\ ~team
  /\ text = T_software /\ calls = <<>>
  /\ result.val = _fallback_processing(text) /\ result.val # text

----------------------------------------------------------------------------
(* Properties of the audio handlers.                                       *)

AudioEvent == entry \in {"main_audio", "line_audio"}

\* C25: when the handler of an audio event returns it has attempted exactly one
\* push, the processed result or an error message; nothing is pushed before.
C25_ExactlyOnePush ==
  AudioEvent =>
    IF pc = "done"
    THEN Len(pushes) = 1 /\ pushes[1].kind \in {"result", "error"}
    ELSE pushes = <<>>

\* the transcription failed and the one push is the error message
C25_Witness ==
  /\ entry = "main_audio" /\ pc = "done"
  /\ download = "ok" /\ stt = "failed"
  /\ pushes = <<[kind |-> "error", text |-> RetryPrompt]>>

\* C26: when the handler of an audio event returns, the deletion of every
\* file the event downloaded has been attempted, whatever became of the
\* transcription and of the optimization.
C26_DownloadedFileCleaned ==
  (AudioEvent /\ pc = "done" /\ download \in {"ok", "empty"}) => cleaned

\* the file was downloaded, nothing was transcribed, the file was deleted
C26_Witness ==
  /\ entry = "main_audio" /\ pc = "done"
  /\ download = "ok" /\ stt = "no_text" /\ result.kind = "None"
  /\ cleaned

\* C27: when the voice processor's run and the transcription-only fallback both
\* failed for an audio event of the line bot, the push is the error message
\* and not a message that presents a result.
C27_FailureSendsError ==
  (entry = "line_audio" /\ pc = "done" /\ download = "ok" /\ ~pipeline_invoked
     /\ result.val = LineFailureText) =>
    \A i \in 1..Len(pushes) : pushes[i].kind = "error"

----------------------------------------------------------------------------
(* The result text and its parsing (src/agents/autogen_voice_processor.py, *)
(* src/line_bot_app.py): _send_processed_result on what                    *)
(* _optimize_with_agents and the bot's _fallback_processing return, for    *)
(* transcripts and extractions of up to MaxParts parts.                    *)

MaxParts == 2

\* two characters and the two labels that _send_processed_result looks for
Parts == {<<"u4f60">>, <<"u597d">>, LineOriginalLabel, LineOptimizedLabel}

RECURSIVE Concat(_)
Concat(ps) == IF ps = <<>> THEN <<>> ELSE Head(ps) \o Concat(Tail(ps))

\* what a transcription returns: stripped and not empty
ParseTexts == {Concat(ps) : ps \in UNION {[1..n -> Parts] : n \in 1..MaxParts}}

ParseInit ==
  /\ app = "linebot"
  /\ ENABLE_TEXT_OPTIMIZATION = TRUE
  /\ opencc = "installed"
  /\ AUTOGEN_AVAILABLE = TRUE /\ Constructed("none")
  /\ pc = "format"
  /\ entry \in {"process_audio", "line_fallback"}
  /\ text \in ParseTexts
  \* what was extracted from the team's messages: nothing, or a text
  /\ optimized_text \in ParseTexts \cup {<<>>}
  /\ entry = "line_fallback" => optimized_text = <<>>
  /\ loop_running = FALSE /\ nested_loop = FALSE /\ pipeline_invoked = (entry = "process_audio")
  /\ calls = <<>> /\ outcomes = <<>> /\ inflight = NoCall
  /\ messages = <<>>
  /\ result = NoResult /\ final_text = <<>>
  /\ download = "ok" /\ stt = "ok" /\ pushes = <<>> /\ cleaned = FALSE
  /\ SttConstructed
  /\ TINYDB_AVAILABLE = TRUE /\ StorageConstructed

\* the return statements of _optimize_with_agents (lines 298-309) and of the
\* bot's _fallback_processing (line 289)
FormatResult ==
  /\ pc = "format"
  /\ pc' = "formatted"
  /\ IF entry = "process_audio"
     THEN LET o == IF optimized_text # <<>> THEN _clean_optimized_text(optimized_text)
                   ELSE _convert_to_traditional_chinese(text)
          IN  /\ final_text' = o
              /\ result' = [kind |-> "str", val |-> ResultText(text, o)]
     ELSE /\ final_text' = text
          /\ result' = [kind |-> "str", val |-> LineFallbackText(text)]
  /\ UNCHANGED <<config, services, entry, text, loop_running, nested_loop, pipeline_invoked,
                 calls, outcomes, inflight, optimized_text, messages, download, stt, pushes,
                 cleaned>>

\* _send_processed_result(user_id, result), then _cleanup_temp_file
SendProcessedResult ==
  /\ pc = "formatted"
  /\ pc' = "sent"
  /\ pushes' = Append(pushes, [kind |-> "result", text |-> ResponseText(result.val)])
  /\ cleaned' = TRUE
  /\ UNCHANGED <<config, services, entry, text, loop_running, nested_loop, pipeline_invoked,
                 calls, outcomes, inflight, optimized_text, messages, result, final_text,
                 download, stt>>

ParseNext == FormatResult \/ SendProcessedResult

ParseSpec == ParseInit /\ [][ParseNext]_vars

\* C28: the message _send_processed_result pushes shows the transcript and the
\* optimized text that the result text was made of: the result text parses
\* back into the two.
C28_ResultParsesBack ==
  pc = "sent" =>
    /\ ParsedOriginal(result.val) = text
    /\ ParsedOptimized(result.val) = final_text

----------------------------------------------------------------------------
(* GoogleSTTProcessor.transcribe_audio_with_timestamps                     *)
(* (src/agents/google_stt_processor.py), called on the one processor by    *)
(* the request threads, each in its own event loop.                        *)

SttInit ==
  /\ app = "linebot"
  /\ ENABLE_TEXT_OPTIMIZATION = TRUE
  /\ opencc = "installed"
  /\ AUTOGEN_AVAILABLE = TRUE /\ Constructed("none")
  /\ pc = "idle"
  /\ entry = "none" /\ text = <<>>
  /\ loop_running = FALSE /\ nested_loop = FALSE /\ pipeline_invoked = FALSE
  /\ calls = <<>> /\ outcomes = <<>> /\ inflight = NoCall
  /\ optimized_text = <<>> /\ messages = <<>>
  /\ result = NoResult /\ final_text = <<>>
  /\ download = "none" /\ stt = "none" /\ pushes = <<>> /\ cleaned = FALSE
  /\ SttConstructed
  /\ TINYDB_AVAILABLE = TRUE /\ StorageConstructed

\* what the steps of transcribe_audio_with_timestamps leave alone
SttUnchanged ==
  UNCHANGED <<config, user_storage, pc, entry, text, loop_running, nested_loop,
              pipeline_invoked, calls, outcomes, inflight, optimized_text, messages, result,
              final_text, download, stt, pushes, cleaned>>

\* line 185: original_setting = self.enable_word_time_offsets
SaveSetting(t) ==
  /\ stt_pc[t] = "idle"
  /\ original_setting' = [original_setting EXCEPT ![t] = enable_word_time_offsets]
  /\ stt_pc' = [stt_pc EXCEPT ![t] = "saved"]
  /\ UNCHANGED enable_word_time_offsets
  /\ SttUnchanged

\* line 186: self.enable_word_time_offsets = True
EnableOffsets(t) ==
  /\ stt_pc[t] = "saved"
  /\ enable_word_time_offsets' = TRUE
  /\ stt_pc' = [stt_pc EXCEPT ![t] = "enabled"]
  /\ UNCHANGED original_setting
  /\ SttUnchanged

\* lines 188-231: the file is read and recognized, or one of the two raises
Recognize(t) ==
  /\ stt_pc[t] = "enabled"
  /\ \E o \in {"recognized", "raised"} : stt_pc' = [stt_pc EXCEPT ![t] = o]
  /\ UNCHANGED <<enable_word_time_offsets, original_setting>>
  /\ SttUnchanged

\* lines 236 and 248: self.enable_word_time_offsets = original_setting, and
\* the call returns
RestoreSetting(t) ==
  /\ stt_pc[t] \in {"recognized", "raised"}
  /\ enable_word_time_offsets' = original_setting[t]
  /\ original_setting' = [original_setting EXCEPT ![t] = Unset]
  /\ stt_pc' = [stt_pc EXCEPT ![t] = "idle"]
  /\ SttUnchanged

SttNext ==
  \E t \in Threads :
    \/ SaveSetting(t)
    \/ EnableOffsets(t)
    \/ Recognize(t)
    \/ RestoreSetting(t)

SttSpec == SttInit /\ [][SttNext]_vars

\* C29: when no call of transcribe_audio_with_timestamps is in progress,
\* enable_word_time_offsets has the value the constructor gave it.
C29_SettingRestored ==
  (\A t \in Threads : stt_pc[t] = "idle") => enable_word_time_offsets = FALSE

----------------------------------------------------------------------------
(* UserStorage.save_interaction (src/src/storage.py), called by the        *)
(* request threads up to MaxSaves times each.  Of a record and of a user's *)
(* statistics the model keeps the fields the counts depend on.             *)

MaxSaves == 2

\* the content of a file that open(..., 'w') has truncated, or that two
\* writers have written over each other: json.load raises on it
Unreadable == [unreadable |-> TRUE]

StoreInit ==
  /\ app = "main"
  /\ ENABLE_TEXT_OPTIMIZATION = TRUE
  /\ opencc = "missing"
  /\ AUTOGEN_AVAILABLE = TRUE /\ Constructed("none")
  /\ pc = "idle"
  /\ entry = "none" /\ text = <<>>
  /\ loop_running = FALSE /\ nested_loop = FALSE /\ pipeline_invoked = FALSE
  /\ calls = <<>> /\ outcomes = <<>> /\ inflight = NoCall
  /\ optimized_text = <<>> /\ messages = <<>>
  /\ result = NoResult /\ final_text = <<>>
  /\ download = "none" /\ stt = "none" /\ pushes = <<>> /\ cleaned = FALSE
  /\ SttConstructed
  /\ TINYDB_AVAILABLE \in BOOLEAN
  /\ StorageConstructed

\* what the steps of save_interaction leave alone
StoreUnchanged ==
  UNCHANGED <<config, stt_processor, TINYDB_AVAILABLE, pc, entry, text, loop_running,
              nested_loop, pipeline_invoked, calls, outcomes, inflight, optimized_text,
              messages, result, final_text, download, stt, pushes, cleaned>>

\* _load_json_data: the content of the file, or the default when json.load raises
_load_json_data(file) == IF file = Unreadable THEN EmptyData ELSE file

\* the statistics of a new user, and of a user after one more interaction
NewUser == [total_interactions |-> 1, audio_count |-> 1]
Incremented(user_data) ==
  [total_interactions |-> user_data.total_interactions + 1,
   audio_count |-> user_data.audio_count + 1]

\* A faulty variant of _update_user_stats, kept for comparison: the audio
\* count of a known user is left as it is.
UpdateStatsForgetsAudioCount(users, user_id) ==
  [u \in DOMAIN users \cup {user_id} |->
     IF u # user_id THEN users[u]
     ELSE IF user_id \in DOMAIN users
     THEN [users[u] EXCEPT !.total_interactions = @ + 1]
     ELSE NewUser]

\* _update_user_stats_json on data['users'], _update_user_stats_tinydb on the
\* users table: the user's counts are incremented, or the user is added
_update_user_stats(users, user_id) ==
  [u \in DOMAIN users \cup {user_id} |->
     IF u # user_id THEN users[u]
     ELSE IF user_id \in DOMAIN users THEN Incremented(users[u]) ELSE NewUser]

\* the record is appended (inserted) and the user's statistics are updated
WithInteraction(d, user_id) ==
  [users |-> _update_user_stats(d.users, user_id),
   interactions |-> Append(d.interactions, user_id)]

\* save_interaction(user_id, ...) is called in thread t
Called(t, user_id) ==
  /\ store_pc[t].at = "idle"
  /\ store_pc[t].calls < MaxSaves
  /\ user_id \in Users

\* With TinyDB, one call at a time: insert, search, update.  `self.db` is
\* tested for truth, which TinyDB answers with the length of its default
\* table; when that is false the JSON branch runs on a storage that has no
\* json_file, _load_json_data and _save_json_data log the AttributeError, and
\* nothing is stored.
SaveTinydb(t) ==
  /\ TINYDB_AVAILABLE
  /\ \A o \in Threads : store_pc[o].at = "idle"
  /\ \E user_id \in Users :
       /\ Called(t, user_id)
       /\ store_pc' = [store_pc EXCEPT ![t].calls = @ + 1]
       /\ \E truthy \in BOOLEAN :
            db' = IF truthy THEN WithInteraction(db, user_id) ELSE db
  /\ UNCHANGED <<json_file, data>>
  /\ StoreUnchanged

\* lines 93-95: data is loaded, the record appended, the statistics updated
LoadJson(t) ==
  /\ ~TINYDB_AVAILABLE
  /\ \E user_id \in Users :
       /\ Called(t, user_id)
       /\ store_pc' = [store_pc EXCEPT ![t] = [at |-> "loaded", user_id |-> user_id,
                                               calls |-> @.calls + 1]]
       /\ data' = [data EXCEPT ![t] = WithInteraction(_load_json_data(json_file), user_id)]
  /\ UNCHANGED <<db, json_file>>
  /\ StoreUnchanged

\* _save_json_data, open(self.json_file, 'w'): the file is truncated
OpenJson(t) ==
  /\ store_pc[t].at = "loaded"
  /\ store_pc' = [store_pc EXCEPT ![t].at = "writing"]
  /\ json_file' = Unreadable
  /\ UNCHANGED <<db, data>>
  /\ StoreUnchanged

\* _save_json_data, json.dump and close: the file holds data, unless another
\* thread wrote the file since this one opened it, when the longer text's end
\* may follow data
DumpJson(t) ==
  /\ store_pc[t].at = "writing"
  /\ store_pc' = [store_pc EXCEPT ![t] = [at |-> "idle", user_id |-> Unset, calls |-> @.calls]]
  /\ \/ json_file' = data[t]
     \/ json_file # Unreadable /\ json_file' = Unreadable
  /\ data' = [data EXCEPT ![t] = Unset]
  /\ UNCHANGED db
  /\ StoreUnchanged

StoreNext ==
  \E t \in Threads :
    \/ SaveTinydb(t)
    \/ LoadJson(t)
    \/ OpenJson(t)
    \/ DumpJson(t)

StoreSpec == StoreInit /\ [][StoreNext]_vars

\* the number of records of the user among the interactions
RECURSIVE RecordsOf(_, _)
RecordsOf(interactions, user_id) ==
  IF interactions = <<>> THEN 0
  ELSE (IF Head(interactions) = user_id THEN 1 ELSE 0) + RecordsOf(Tail(interactions), user_id)

\* both counts of every user equal the number of the user's records
Consistent(d) ==
  \A u \in Users :
    IF u \in DOMAIN d.users
    THEN /\ d.users[u].total_interactions = RecordsOf(d.interactions, u)
         /\ d.users[u].audio_count = RecordsOf(d.interactions, u)
    ELSE RecordsOf(d.interactions, u) = 0

\* C30: for every user the stored total_interactions and audio_count equal the
\* number of records stored for the user, in the TinyDB tables after calls
\* made one after the other, and in the JSON file whenever it can be read,
\* however the threads' loads and saves interleave.
C30_CountsMatchRecords ==
  /\ Consistent(db)
  /\ json_file # Unreadable => Consistent(json_file)

\* two calls for one user interleaved on the JSON file: both loaded the empty
\* file, the second save replaced the first, one record and a count of one
\* are stored
C30_Witness ==
  /\ ~TINYDB_AVAILABLE
  /\ \A t \in Threads : store_pc[t].at = "idle" /\ store_pc[t].calls = 1
  /\ json_file # Unreadable
  /\ json_file.interactions = <<"u1">>
  /\ json_file.users["u1"] = NewUser
====
